---------------------------- MODULE Spec2Model ----------------------------
(* Job scheduler of pdf_translate: admission under a concurrency cap,     *)
(* FIFO queue, asyncio job tasks, cancellation, persistence in the job    *)
(* store, startup recovery and the maintenance sweep.                     *)
(*                                                                        *)
(* The process is one asyncio event loop.  A handler runs from one        *)
(* suspension point to the next without interleaving, so every action     *)
(* below is one such run.  A task made by asyncio.create_task runs its    *)
(* first step in a later loop iteration, so creation and first step are   *)
(* distinct actions.  The job store (SQLite), the uploads directory and   *)
(* the outputs directory survive a process crash; the dictionaries of     *)
(* translation_service.py do not.                                         *)
EXTENDS Integers, Sequences, FiniteSets, TLC

(* ------------------------------ bounds ------------------------------- *)
\* number of translation requests over a run (task ids are fresh uuids,
\* named 1..NJobs in the order of their creation)
NJobs == 2
\* number of uploaded files over a run (file ids are fresh uuids too)
NFiles == 1
\* the configured cap, env MAX_CONCURRENT_TRANSLATIONS
MAX_CONCURRENT == 1
\* number of websocket connections over a run
NSockets == 1

\* the task ids of a run: NJobs requests, and one more in the runs that
\* fill the pending queue with two entries (InitQueue)
Jobs == 1..(NJobs + 1)
\* the websocket connections of a run: NSockets of them, and one more in
\* the runs in which a job is subscribed to twice (SpecSubscribers)
Sockets == 1..(NSockets + 1)
Files == 1..NFiles
\* overall_progress values carried by progress_update events
ProgressEvents == {0, 100}

(* ------------------------------ state -------------------------------- *)
VARIABLES
  up,                   \* the process is running (on_startup has run)
  clock,                \* datetime.now(), a logical instant
  nextId,               \* the next fresh task id
  nextFile,             \* the next fresh file id
  uploads,              \* files present in UPLOADS_DIR
  mono,                 \* jobs whose OUTPUTS_DIR/<task_id> holds a mono pdf
  active_translations,  \* in-memory job table: task id -> record
  active_tasks,         \* task ids registered as running
  pending_queue,        \* sequence of <<created_at, task_id, config>>
  tasks,                \* the asyncio Task of each job: its position
  db,                   \* translation_history rows: task id -> row
  dbOrder,              \* task ids of the rows, most recent updated_at first
  last,                 \* what the last handler did (observation only)
  budget,               \* number of translation requests the run makes
  connected_clients,    \* task id -> the websocket registered for it, or 0
  sockets,              \* websocket -> the task id of its path and its state
  sent,                 \* <<websocket, task id>>: events sent by the last step
  call                  \* the call of a function of core/image_translate.py
                        \* or of hook/babel_doc_hook.py

vars == <<up, clock, nextId, nextFile, uploads, mono, active_translations,
          active_tasks, pending_queue, tasks, db, dbOrder, last,
          budget, connected_clients, sockets, sent, call>>

\* no websocket was accepted yet
NoSocket == [task |-> 0, state |-> "new"]
\* no function of core/image_translate.py is being called
NoCall == [fn |-> "none"]

\* a task id that is not a key of active_translations
NoRec == [status |-> "absent", progress |-> 0, error |-> "", filename |-> 0]
\* a task id that has no row in translation_history
NoRow == [status |-> "absent", progress |-> 0, error |-> "", filename |-> 0,
          created_at |-> 0]
\* no asyncio Task was ever created for the job in this process
NoTask == [state |-> "none", finished |-> FALSE, must_cancel |-> FALSE,
           by |-> ""]

\* queue_position is None for every task
NoPositions == [j \in Jobs |-> 0]

\* remove_from_queue was not called
NoRemoval == [task_id |-> 0]

NoLast == [op |-> "init", id |-> 0, ret |-> "", calls |-> <<>>,
           started |-> <<>>, pre |-> [j \in Jobs |-> NoRow],
           positions |-> NoPositions, removal |-> NoRemoval]

(* The scheduler's mutable state, threaded through the operators that    *)
(* model the functions of translation_service.py:                        *)
(*   at  active_translations     tk  active_tasks    q  pending_queue    *)
(*   ts  Task objects            db, ord  job store                      *)
(*   now the clock               started, calls  observation of the run  *)
(*   ctx who runs: a request handler or on_startup ("handler"), or a     *)
(*       step of a job's task ("task")                                   *)
(*   store  "down" while save_or_update_history raises (the database is  *)
(*       locked or the disk is full) during the run                      *)
(*   raised an exception of save_or_update_history is propagating        *)
Cur == [at |-> active_translations, tk |-> active_tasks, q |-> pending_queue,
        ts |-> tasks, db |-> db, ord |-> dbOrder, now |-> clock,
        ctx |-> "handler", started |-> <<>>, calls |-> <<>>, ret |-> "",
        store |-> "up", raised |-> FALSE, removal |-> NoRemoval]

\* the state as a step of a job's task finds it
TaskCur == [Cur EXCEPT !.ctx = "task"]

InMem(s, task_id) == s.at[task_id].status # "absent"
InDb(s, task_id) == s.db[task_id].status # "absent"

(* --------------------------- job store ------------------------------- *)
RECURSIVE Without(_, _)
Without(seq, x) ==
  IF seq = <<>> THEN <<>>
  ELSE IF Head(seq) = x THEN Without(Tail(seq), x)
       ELSE <<Head(seq)>> \o Without(Tail(seq), x)

\* updated_at = now: the row becomes the most recently updated one
Touch(ord, task_id) == <<task_id>> \o Without(ord, task_id)

\* save_or_update_history(task_data): upsert; created_at is set on insert only
SaveOrUpdateHistory(s, task_id, rec) ==
  [s EXCEPT
     !.db[task_id] = [status     |-> rec.status,
                      progress   |-> rec.progress,
                      error      |-> rec.error,
                      filename   |-> rec.filename,
                      created_at |-> IF InDb(s, task_id)
                                     THEN s.db[task_id].created_at
                                     ELSE s.now],
     !.ord = Touch(@, task_id)]

\* save_or_update_history(active_translations[task_id]); it raises while
\* the store is down
Persist(s, task_id) ==
  IF s.store = "down" THEN [s EXCEPT !.raised = TRUE]
  ELSE SaveOrUpdateHistory(s, task_id, s.at[task_id])

\* except Exception: pass
Caught(s) == [s EXCEPT !.raised = FALSE]

\* mark_task_invalid: False when the row is missing
MarkTaskInvalid(s, task_id) ==
  IF ~InDb(s, task_id) THEN s
  ELSE [s EXCEPT !.db[task_id].status = "invalid", !.ord = Touch(@, task_id)]

\* delete_history
DeleteHistory(s, task_id) ==
  [s EXCEPT !.db[task_id] = NoRow, !.ord = Without(@, task_id)]

(* ---------------------------- scheduler ------------------------------ *)
\* variant: counts only the tasks that have begun to run
RunningCountStartedOnly(s) ==
  Cardinality({j \in s.tk : s.ts[j].state = "running"})

\* _running_count
RunningCount(s) == Cardinality(s.tk)

\* _start_task: create the task and register it
StartTask(s, task_id, created_at) ==
  [s EXCEPT !.tk = @ \cup {task_id},
            !.ts[task_id] = [state |-> "created", finished |-> FALSE,
                             must_cancel |-> FALSE, by |-> s.ctx],
            !.started = Append(@, <<created_at, task_id>>)]

\* list.sort(key=lambda x: x[0]) is stable: an entry goes after the entries
\* whose key is not greater
RECURSIVE InsertByCreatedAt(_, _)
InsertByCreatedAt(sorted, e) ==
  IF sorted = <<>> THEN <<e>>
  ELSE IF Head(sorted)[1] <= e[1]
       THEN <<Head(sorted)>> \o InsertByCreatedAt(Tail(sorted), e)
       ELSE <<e>> \o sorted

RECURSIVE SortByCreatedAt(_)
SortByCreatedAt(q) ==
  IF q = <<>> THEN <<>>
  ELSE InsertByCreatedAt(SortByCreatedAt(SubSeq(q, 1, Len(q) - 1)), q[Len(q)])

\* variant: the queue is drained in the order of its entries
SortQueueKeepsOrder(q) == q

\* drain_queue, the sort of line 76
SortQueue(q) == SortByCreatedAt(q)

\* the record update of drain_queue and schedule_translation
SetStatus(s, task_id, status) ==
  IF InMem(s, task_id)
  THEN Persist([s EXCEPT !.at[task_id].status = status], task_id)
  ELSE s

\* drain_queue, lines 80-86: an exception of save_or_update_history (line
\* 85) leaves drain_queue before _start_task (line 86)
StartSkipped(saved) == saved.raised

\* variant: the first entry is read and left in the queue
KeepFirst(q) == q

\* drain_queue, line 78: what pending_queue.pop(0) leaves
PopFirst(q) == Tail(q)

\* drain_queue, the loop of lines 77-86
RECURSIVE DrainLoop(_)
DrainLoop(s) ==
  IF s.q # <<>> /\ RunningCount(s) < MAX_CONCURRENT
  THEN LET e == Head(s.q)
           popped == [s EXCEPT !.q = PopFirst(@)]
           saved == SetStatus(popped, e[2], "running")
       IN IF StartSkipped(saved) THEN saved
          ELSE DrainLoop(StartTask(saved, e[2], e[1]))
  ELSE s

\* drain_queue
DrainQueue(s) ==
  IF s.q = <<>> THEN s
  ELSE DrainLoop([s EXCEPT !.q = SortQueue(@)])

\* variant: the task id is compared with the first field of the entry
IsEntryOfCreatedAt(item, task_id) == item[1] = task_id

\* remove_from_queue, line 95: item[1] == task_id (the fields of an entry
\* are numbered from 1 here)
IsEntryOf(item, task_id) == item[2] = task_id

\* what one call of remove_from_queue was given, found and left
RemovalRecord(before, after, task_id) ==
  [task_id |-> task_id, ret |-> after.ret,
   q_before |-> before.q, q_after |-> after.q,
   tk_before |-> before.tk, tk_after |-> after.tk,
   at_before |-> before.at, at_after |-> after.at,
   db_before |-> before.db, db_after |-> after.db]

\* remove_from_queue: .ret is "True" when an entry was found
RemoveFromQueue(s, task_id) ==
  LET new_q == SelectSeq(s.q, LAMBDA item : ~IsEntryOf(item, task_id))
      removed == \E i \in 1..Len(s.q) : IsEntryOf(s.q[i], task_id)
      r == IF removed THEN [s EXCEPT !.q = new_q, !.ret = "True"]
           ELSE [s EXCEPT !.ret = "False"]
  IN [r EXCEPT !.removal = RemovalRecord(s, r, task_id)]

\* schedule_translation, line 128
Enqueue(q, created_at, task_id, config) ==
  Append(q, <<created_at, task_id, config>>)

\* what one call of schedule_translation was given, found and left
CallRecord(before, after, task_id, config, created_at, ret) ==
  [task_id |-> task_id, config |-> config, created_at |-> created_at,
   ret |-> ret,
   tk_before |-> before.tk, tk_after |-> after.tk,
   q_before |-> before.q, q_after |-> after.q,
   ts_before |-> before.ts, ts_after |-> after.ts,
   status_after |-> after.at[task_id].status]

\* variant: a slot is taken to be free while the count equals the cap
HasFreeSlotOffByOne(s) == RunningCount(s) <= MAX_CONCURRENT

\* schedule_translation, the test of line 110
HasFreeSlot(s) == RunningCount(s) < MAX_CONCURRENT

\* schedule_translation
ScheduleTranslation(s, task_id, config, created_at) ==
  LET r == IF HasFreeSlot(s)
           THEN [StartTask(SetStatus(s, task_id, "running"), task_id, created_at)
                   EXCEPT !.ret = "running"]
           ELSE [SetStatus(s, task_id, "queued")
                   EXCEPT !.q = Enqueue(@, created_at, task_id, config),
                          !.ret = "queued"]
  IN [r EXCEPT !.calls =
        Append(@, CallRecord(s, r, task_id, config, created_at, r.ret))]

\* cancel_task: Task.cancel() marks a task that has not finished; the
\* CancelledError is raised in the task at its next step
CancelTask(s, task_id) ==
  IF task_id \in s.tk
  THEN LET marked == IF s.ts[task_id].state \in {"created", "running"}
                     THEN [s EXCEPT !.ts[task_id].must_cancel = TRUE]
                     ELSE s
       IN [DrainQueue(marked) EXCEPT !.ret = "True"]
  ELSE [s EXCEPT !.ret = "False"]

(* ------------------------- commit of a run --------------------------- *)
\* the scheduler state s becomes the next state
Commit(s) ==
  /\ active_translations' = s.at
  /\ active_tasks' = s.tk
  /\ pending_queue' = s.q
  /\ tasks' = s.ts
  /\ db' = s.db
  /\ dbOrder' = s.ord

Observe(op, id, s, pre) ==
  last' = [op |-> op, id |-> id, ret |-> s.ret, calls |-> s.calls,
           started |-> s.started, pre |-> pre, positions |-> NoPositions,
           removal |-> s.removal]

NoPre == [j \in Jobs |-> NoRow]

\* a step that no property below looks back at
Unobserved == [NoLast EXCEPT !.op = "other"]

(* ------------------------------ Init --------------------------------- *)
\* the module has been imported and on_startup has not run yet
Boot ==
  /\ up = FALSE
  /\ clock = 1
  /\ nextId = 1
  /\ nextFile = 1
  /\ uploads = {}
  /\ mono = {}
  /\ active_translations = [j \in Jobs |-> NoRec]
  /\ active_tasks = {}
  /\ pending_queue = <<>>
  /\ tasks = [j \in Jobs |-> NoTask]
  /\ db = [j \in Jobs |-> NoRow]
  /\ dbOrder = <<>>
  /\ last = NoLast
  /\ connected_clients = [j \in Jobs |-> 0]
  /\ sockets = [w \in Sockets |-> NoSocket]
  /\ sent = {}

Init ==
  /\ Boot
  /\ budget = NJobs
  /\ call = NoCall

(* ------------------------ maintenance sweep -------------------------- *)
\* uploads/*.pdf ids referenced by a row of the snapshot or by a record of
\* active_translations (referenced_ids)
ReferencedIds(snapshot, at) ==
  {snapshot[j].filename : j \in {k \in Jobs : snapshot[k].status # "absent"}}
    \cup {at[j].filename : j \in {k \in Jobs : at[k].status # "absent"}}

\* perform_maintenance, the deletion of orphan uploads (MAINTENANCE_DELETE_ORPHANS)
AfterOrphanDeletion(files, snapshot, at) ==
  {f \in files : f \in ReferencedIds(snapshot, at)}

\* variant: only unfinished jobs are marked
SourceMissingUnfinishedOnly(t, files) ==
  t.filename \notin files /\ t.status \in {"running", "queued"}

\* perform_maintenance, the test of line 155
SourceMissing(t, files) ==
  t.filename \notin files /\ t.status # "invalid"

\* perform_maintenance, lines 146-162, over the snapshot in list order
RECURSIVE MarkInvalidPass(_, _, _, _)
MarkInvalidPass(s, order, snapshot, files) ==
  IF order = <<>> THEN s
  ELSE LET task_id == Head(order)
           s1 == IF SourceMissing(snapshot[task_id], files)
                 THEN MarkTaskInvalid(s, task_id)
                 ELSE s
       IN MarkInvalidPass(s1, Tail(order), snapshot, files)

\* perform_maintenance, the test of lines 167-175 (on the snapshot's row)
StuckAtHundred(t, task_id, outputs) ==
  t.status = "running" /\ t.progress >= 100 /\ task_id \in outputs

\* the dict that line 177 hands to save_or_update_history
CompletedRecord(t) ==
  [status |-> "completed", progress |-> 100, error |-> "",
   filename |-> t.filename]

\* perform_maintenance, lines 165-189, over the snapshot in list order
RECURSIVE FixCompletedPass(_, _, _, _)
FixCompletedPass(s, order, snapshot, outputs) ==
  IF order = <<>> THEN s
  ELSE LET task_id == Head(order)
           s1 == IF StuckAtHundred(snapshot[task_id], task_id, outputs)
                 THEN SaveOrUpdateHistory(s, task_id,
                                          CompletedRecord(snapshot[task_id]))
                 ELSE s
       IN FixCompletedPass(s1, Tail(order), snapshot, outputs)

\* perform_maintenance, lines 109-112: the rows that repo_list_tasks()
\* returns, none when it raises
RepoListTasks(s) ==
  IF s.store = "down"
  THEN [rows |-> [j \in Jobs |-> NoRow], order |-> <<>>]
  ELSE [rows |-> s.db, order |-> s.ord]

\* perform_maintenance: the rows are read once (repo_list_tasks) and both
\* passes run over that snapshot
PerformMaintenance(s, files, outputs) ==
  LET snapshot == RepoListTasks(s).rows
      order == RepoListTasks(s).order
      kept == AfterOrphanDeletion(files, snapshot, s.at)
      s1 == MarkInvalidPass(s, order, snapshot, kept)
  IN FixCompletedPass(s1, order, snapshot, outputs)

(* ------------------------- startup recovery -------------------------- *)
\* variant: only queued jobs are taken up again
RecoverableQueuedOnly(t) ==
  t.status = "queued" /\ t.progress < 100

\* on_startup, the test of line 216
Recoverable(t) ==
  t.status \in {"running", "queued"} /\ t.progress < 100

\* on_startup, lines 249-262: the record preset in active_translations
RecoveredRecord(t) ==
  [status |-> IF t.status = "queued" THEN "queued" ELSE "running",
   progress |-> t.progress, error |-> "", filename |-> t.filename]

\* on_startup, one iteration of the loop of lines 212-271
RecoverOne(s, task_id, t, files) ==
  IF ~Recoverable(t) THEN s
  ELSE IF InMem(s, task_id) \/ task_id \in s.tk THEN s
  ELSE IF t.filename \notin files THEN s
  ELSE ScheduleTranslation([s EXCEPT !.at[task_id] = RecoveredRecord(t)],
                           task_id, t.filename, t.created_at)

\* on_startup, the loop over repo_list_tasks() (updated_at descending)
RECURSIVE RecoverAll(_, _, _, _)
RecoverAll(s, order, snapshot, files) ==
  IF order = <<>> THEN s
  ELSE RecoverAll(RecoverOne(s, Head(order), snapshot[Head(order)], files),
                  Tail(order), snapshot, files)

\* on_startup: sweep, recovery, drain_queue
Startup(s, files, outputs) ==
  LET swept == PerformMaintenance(s, files, outputs)
      kept == AfterOrphanDeletion(files, s.db, s.at)
  IN DrainQueue(RecoverAll(swept, swept.ord, swept.db, kept))

(* ------------------------------ actions ------------------------------ *)
\* the process starts: on_startup runs to its end without suspending
OnStartup ==
  /\ ~up
  /\ LET s == Startup(Cur, uploads, mono)
     IN /\ Commit(s)
        /\ Observe("startup", 0, s, db)
  /\ up' = TRUE
  /\ uploads' = AfterOrphanDeletion(uploads, db, active_translations)
  /\ UNCHANGED <<clock, nextId, nextFile, mono>>
  /\ sent' = {}
  /\ UNCHANGED <<budget, connected_clients, sockets, call>>

\* the process dies: the dictionaries and the tasks are lost, the job store
\* and the files stay
Crash ==
  /\ up
  /\ up' = FALSE
  /\ active_translations' = [j \in Jobs |-> NoRec]
  /\ active_tasks' = {}
  /\ pending_queue' = <<>>
  /\ tasks' = [j \in Jobs |-> NoTask]
  /\ last' = Unobserved
  /\ UNCHANGED <<clock, nextId, nextFile, uploads, mono, db, dbOrder>>
  /\ connected_clients' = [j \in Jobs |-> 0]
  /\ sockets' = [w \in Sockets |-> [sockets[w] EXCEPT !.state = IF @ = "open" THEN "closed" ELSE @]]
  /\ sent' = {}
  /\ UNCHANGED <<budget, call>>

\* _maintenance_loop: one periodic sweep
Maintenance ==
  /\ up
  /\ LET s == PerformMaintenance(Cur, uploads, mono)
     IN /\ Commit(s)
        /\ Observe("maintenance", 0, s, db)
  /\ uploads' = AfterOrphanDeletion(uploads, db, active_translations)
  /\ UNCHANGED <<up, clock, nextId, nextFile, mono>>
  /\ sent' = {}
  /\ UNCHANGED <<budget, connected_clients, sockets, call>>

\* _maintenance_loop: one periodic sweep during which repo_list_tasks raises
MaintenanceStoreDown ==
  /\ up
  /\ LET down == [Cur EXCEPT !.store = "down"]
         s == PerformMaintenance(down, uploads, mono)
     IN /\ Commit(s)
        /\ Observe("maintenance_down", 0, s, db)
        /\ uploads' = AfterOrphanDeletion(uploads, RepoListTasks(down).rows,
                                          active_translations)
  /\ UNCHANGED <<up, clock, nextId, nextFile, mono>>
  /\ sent' = {}
  /\ UNCHANGED <<budget, connected_clients, sockets, call>>

\* upload_pdf: a file with a fresh id appears in UPLOADS_DIR
Upload ==
  /\ up
  /\ nextFile <= NFiles
  /\ uploads' = uploads \cup {nextFile}
  /\ nextFile' = nextFile + 1
  /\ last' = Unobserved
  /\ UNCHANGED <<up, clock, nextId, mono, active_translations, active_tasks,
                 pending_queue, tasks, db, dbOrder>>
  /\ sent' = {}
  /\ UNCHANGED <<budget, connected_clients, sockets, call>>

\* the file system is not the program's alone: an upload is removed from
\* outside (the case lines 154-155 and 232-235 of app/__init__.py test for)
RemoveUpload(f) ==
  /\ f \in uploads
  /\ uploads' = uploads \ {f}
  /\ last' = Unobserved
  /\ UNCHANGED <<up, clock, nextId, nextFile, mono, active_translations,
                 active_tasks, pending_queue, tasks, db, dbOrder>>
  /\ sent' = {}
  /\ UNCHANGED <<budget, connected_clients, sockets, call>>

\* the record start_translation_service writes first
NewRecord(file_id) ==
  [status |-> "queued", progress |-> 0, error |-> "", filename |-> file_id]

\* start_translation_service: POST /translate for file_id, at instant t
StartTranslationService(file_id, t) ==
  /\ up
  /\ nextId <= budget
  /\ file_id \in uploads
  /\ LET task_id == nextId
         s0 == [Cur EXCEPT !.now = t, !.at[task_id] = NewRecord(file_id)]
         s1 == Persist(s0, task_id)
         s2 == ScheduleTranslation(s1, task_id, file_id, t)
         s3 == [DrainQueue(s2) EXCEPT !.ret = s2.ret]
     IN /\ Commit(s3)
        /\ Observe("submit", task_id, s3, NoPre)
  /\ clock' = t
  /\ nextId' = nextId + 1
  /\ UNCHANGED <<up, nextFile, uploads, mono>>
  /\ sent' = {}
  /\ UNCHANGED <<budget, connected_clients, sockets, call>>

(* ------------------- run_translation, the job's task ------------------ *)
\* run_translation returns: the Task is finished and, once unregistered,
\* nothing refers to it any more
Ended(s, task_id) == [s EXCEPT !.ts[task_id] = NoTask]

\* run_translation, the finally clause: unregister, then drain_queue
\* inside try/except
Finally(s, task_id) ==
  Caught(DrainQueue([s EXCEPT !.tk = @ \ {task_id}]))

\* the first step of the task: run_translation enters its try block and
\* waits for the first event of high_level.async_translate
TaskStart(task_id) ==
  /\ up
  /\ tasks[task_id].state = "created"
  /\ ~tasks[task_id].must_cancel
  /\ tasks' = [tasks EXCEPT ![task_id].state = "running", ![task_id].by = ""]
  /\ last' = Unobserved
  /\ UNCHANGED <<up, clock, nextId, nextFile, uploads, mono,
                 active_translations, active_tasks, pending_queue, db, dbOrder>>
  /\ sent' = {}
  /\ UNCHANGED <<budget, connected_clients, sockets, call>>

\* Task.cancel() before the first step: the CancelledError is thrown into a
\* coroutine that has not started, so no line of run_translation runs,
\* neither its except clauses nor its finally
TaskCancelledBeforeStart(task_id) ==
  /\ up
  /\ tasks[task_id].state = "created"
  /\ tasks[task_id].must_cancel
  /\ tasks' = [tasks EXCEPT ![task_id].state = "done", ![task_id].by = ""]
  /\ last' = Unobserved
  /\ UNCHANGED <<up, clock, nextId, nextFile, uploads, mono,
                 active_translations, active_tasks, pending_queue, db, dbOrder>>
  /\ sent' = {}
  /\ UNCHANGED <<budget, connected_clients, sockets, call>>

\* variant: the event is sent to every registered websocket
SentToAll(task_id) ==
  IF active_translations[task_id].status # "absent"
  THEN {<<connected_clients[j], task_id>> :
          j \in {k \in Jobs : connected_clients[k] # 0}}
  ELSE {}

\* run_translation, lines 285-289: the event is sent to the websocket
\* registered for the job (inside the test of line 245)
Sent(task_id) ==
  IF active_translations[task_id].status # "absent"
       /\ connected_clients[task_id] # 0
  THEN {<<connected_clients[task_id], task_id>>}
  ELSE {}

\* the task is waiting for an event and no cancellation is pending
Receiving(task_id) ==
  /\ up
  /\ tasks[task_id].state = "running"
  /\ ~tasks[task_id].must_cancel

\* run_translation, lines 246-257
ProgressUpdate(s, task_id, p) ==
  IF InMem(s, task_id)
  THEN Persist([s EXCEPT !.at[task_id].progress = p], task_id)
  ELSE s

OnProgressUpdate(task_id, p) ==
  /\ Receiving(task_id)
  /\ LET s == ProgressUpdate(TaskCur, task_id, p)
     IN /\ Commit(s)
        /\ last' = Unobserved
  /\ UNCHANGED <<up, clock, nextId, nextFile, uploads, mono>>
  /\ sent' = Sent(task_id)
  /\ UNCHANGED <<budget, connected_clients, sockets, call>>

\* run_translation, lines 258-275
FinishEvent(s, task_id) ==
  IF InMem(s, task_id)
  THEN [Persist([s EXCEPT !.at[task_id].status = "completed",
                          !.at[task_id].progress = 100], task_id)
          EXCEPT !.ts[task_id].finished = TRUE]
  ELSE s

OnFinish(task_id) ==
  /\ Receiving(task_id)
  /\ LET s == FinishEvent(TaskCur, task_id)
     IN /\ Commit(s)
        /\ last' = Unobserved
  /\ UNCHANGED <<up, clock, nextId, nextFile, uploads, mono>>
  /\ sent' = Sent(task_id)
  /\ UNCHANGED <<budget, connected_clients, sockets, call>>

\* run_translation, lines 276-282
ErrorEvent(s, task_id) ==
  IF InMem(s, task_id)
  THEN Persist([s EXCEPT !.at[task_id].status = "error",
                         !.at[task_id].error = "event_error"], task_id)
  ELSE s

OnErrorEvent(task_id) ==
  /\ Receiving(task_id)
  /\ LET s == ErrorEvent(TaskCur, task_id)
     IN /\ Commit(s)
        /\ last' = Unobserved
  /\ UNCHANGED <<up, clock, nextId, nextFile, uploads, mono>>
  /\ sent' = Sent(task_id)
  /\ UNCHANGED <<budget, connected_clients, sockets, call>>

\* run_translation, lines 291-325: the stream ended without a finish event
Fallback(s, task_id) ==
  IF ~s.ts[task_id].finished /\ InMem(s, task_id)
  THEN Caught(Persist([s EXCEPT !.at[task_id].status = "completed",
                                !.at[task_id].progress = 100], task_id))
  ELSE s

\* the event stream ends: fallback, then finally
OnStreamEnd(task_id) ==
  /\ Receiving(task_id)
  /\ LET s == Finally(Ended(Fallback(TaskCur, task_id), task_id), task_id)
     IN /\ Commit(s)
        /\ Observe("stream_end", task_id, s, NoPre)
  /\ UNCHANGED <<up, clock, nextId, nextFile, uploads, mono>>
  /\ sent' = {}
  /\ UNCHANGED <<budget, connected_clients, sockets, call>>

\* the event stream ends while save_or_update_history raises
OnStreamEndStoreDown(task_id) ==
  /\ Receiving(task_id)
  /\ LET down == [TaskCur EXCEPT !.store = "down"]
         s == Finally(Ended(Fallback(down, task_id), task_id), task_id)
     IN /\ Commit(s)
        /\ Observe("store_down", task_id, s, NoPre)
  /\ UNCHANGED <<up, clock, nextId, nextFile, uploads, mono>>
  /\ sent' = {}
  /\ UNCHANGED <<budget, connected_clients, sockets, call>>

\* variant: the status is set and the exception text is dropped
ExceptionUpdateNoText(rec) == [rec EXCEPT !.status = "error"]

\* run_translation, lines 340-344
ExceptionUpdate(rec) ==
  [rec EXCEPT !.status = "error", !.error = "exception_text"]

\* run_translation, lines 338-345
ExceptException(s, task_id) ==
  IF InMem(s, task_id)
  THEN Persist([s EXCEPT !.at[task_id] = ExceptionUpdate(@)], task_id)
  ELSE s

\* the pipeline raises an exception that is not a cancellation
OnException(task_id) ==
  /\ Receiving(task_id)
  /\ LET s == Finally(Ended(ExceptException(TaskCur, task_id), task_id), task_id)
     IN /\ Commit(s)
        /\ Observe("exception", task_id, s, NoPre)
  /\ UNCHANGED <<up, clock, nextId, nextFile, uploads, mono>>
  /\ sent' = {}
  /\ UNCHANGED <<budget, connected_clients, sockets, call>>

\* run_translation, lines 326-337
ExceptCancelled(s, task_id) ==
  LET s1 == IF InMem(s, task_id)
            THEN Persist([s EXCEPT !.at[task_id].status = "cancelled"], task_id)
            ELSE s
  IN [s1 EXCEPT !.tk = @ \ {task_id}]

\* the CancelledError reaches the task at the await it is suspended in
OnCancelled(task_id) ==
  /\ up
  /\ tasks[task_id].state = "running"
  /\ tasks[task_id].must_cancel
  /\ LET s == Finally(Ended(ExceptCancelled(TaskCur, task_id), task_id), task_id)
     IN /\ Commit(s)
        /\ Observe("cancelled", task_id, s, NoPre)
  /\ UNCHANGED <<up, clock, nextId, nextFile, uploads, mono>>
  /\ sent' = {}
  /\ UNCHANGED <<budget, connected_clients, sockets, call>>

\* the pipeline of a running job writes its mono pdf into OUTPUTS_DIR/<task_id>
WriteMono(task_id) ==
  /\ Receiving(task_id)
  /\ task_id \notin mono
  /\ mono' = mono \cup {task_id}
  /\ last' = Unobserved
  /\ UNCHANGED <<up, clock, nextId, nextFile, uploads, active_translations,
                 active_tasks, pending_queue, tasks, db, dbOrder>>
  /\ sent' = {}
  /\ UNCHANGED <<budget, connected_clients, sockets, call>>

(* ---------------------------- delete_tasks --------------------------- *)
\* delete_tasks, lines 183-188: setdefault(tid, {}).update(...)
MarkWithdrawn(s, task_id) ==
  [s EXCEPT !.at[task_id] =
     IF InMem(s, task_id) THEN [@ EXCEPT !.status = "cancelled"]
     ELSE [NoRec EXCEPT !.status = "cancelled"]]

\* delete_tasks, lines 172-190
CancelOrWithdraw(s, tid) ==
  IF tid \in s.tk
  THEN LET c == CancelTask(s, tid)
       IN [c EXCEPT !.ret = IF c.ret = "True" THEN "cancelled" ELSE "error"]
  ELSE LET r == RemoveFromQueue(s, tid)
       IN IF r.ret = "True"
          THEN [MarkWithdrawn(r, tid) EXCEPT !.ret = "withdrawn"]
          ELSE [r EXCEPT !.ret = "deleted"]

\* delete_tasks, lines 192-211
Forget(s, tid) ==
  DeleteHistory([s EXCEPT !.at[tid] = NoRec], tid)

\* A request can name a task id once a response has announced it.  The task
\* that a request handler or on_startup creates takes its first step in the
\* next iteration of the event loop, before any response is sent or any
\* request accepted; the task that drain_queue creates inside a step of
\* another task can be preceded by a request that is already scheduled.
Nameable(tid) ==
  ~(tasks[tid].state = "created" /\ tasks[tid].by = "handler")

\* delete_tasks for one task id of an authorised requester; a task id
\* without a row is answered not_found and changes nothing
DeleteTasks(tid) ==
  /\ up
  /\ db[tid].status # "absent"
  /\ Nameable(tid)
  /\ LET s == Forget(CancelOrWithdraw(Cur, tid), tid)
     IN /\ Commit(s)
        /\ Observe("delete", tid, s, NoPre)
  /\ mono' = mono \ {tid}
  /\ UNCHANGED <<up, clock, nextId, nextFile, uploads>>
  /\ connected_clients' = [connected_clients EXCEPT ![tid] = 0]
  /\ sockets' = [w \in Sockets |-> IF connected_clients[tid] = w THEN [sockets[w] EXCEPT !.state = "closed"] ELSE sockets[w]]
  /\ sent' = {}
  /\ UNCHANGED <<budget, call>>

(* ----------------------------- list_tasks ---------------------------- *)
\* list_tasks, line 51: sorted(list(pending_queue), key=created_at)
SortedSnapshot(q) == SortByCreatedAt(q)

\* variant: the index of enumerate, not idx + 1
QueueIndexFromZero(sorted_q, task_id) ==
  LET at == {i \in 1..Len(sorted_q) : sorted_q[i][2] = task_id}
  IN IF at = {} THEN 0 ELSE (CHOOSE i \in at : \A k \in at : k <= i) - 1

\* list_tasks, line 52: queue_index_map.get(task_id); of two entries of one
\* task id the later one gives the index, no entry gives None (0)
QueueIndex(sorted_q, task_id) ==
  LET at == {i \in 1..Len(sorted_q) : sorted_q[i][2] = task_id}
  IN IF at = {} THEN 0 ELSE CHOOSE i \in at : \A k \in at : k <= i

\* list_tasks, lines 57-68: the queue_position of the row of task_id
QueuePosition(row, q, task_id) ==
  IF row.status = "queued"
  THEN QueueIndex(SortedSnapshot(q), task_id)
  ELSE 0

\* GET /tasks: the rows of the job store with their queue positions
ListTasks ==
  /\ up
  /\ last' = [Unobserved EXCEPT
                !.op = "list",
                !.positions = [j \in Jobs |->
                                 QueuePosition(db[j], pending_queue, j)]]
  /\ sent' = {}
  /\ UNCHANGED <<up, clock, nextId, nextFile, uploads, mono,
                 active_translations, active_tasks, pending_queue, tasks,
                 db, dbOrder, budget, connected_clients, sockets, call>>

(* -------------------------- ws_task_progress ------------------------ *)
\* ws_task_progress after accept(): the websocket replaces the one
\* registered for task_id and is sent a snapshot if the job is in memory
WsConnect(w, task_id) ==
  /\ up
  /\ sockets[w].state = "new"
  /\ sockets' = [sockets EXCEPT ![w] = [task |-> task_id, state |-> "open"]]
  /\ connected_clients' = [connected_clients EXCEPT ![task_id] = w]
  /\ sent' = IF active_translations[task_id].status # "absent"
             THEN {<<w, task_id>>} ELSE {}
  /\ last' = Unobserved
  /\ UNCHANGED <<up, clock, nextId, nextFile, uploads, mono,
                 active_translations, active_tasks, pending_queue, tasks,
                 db, dbOrder, budget, call>>

\* variant: the cleanup unregisters whichever websocket the job has
IsRegisteredOrReplaced(w, task_id) == TRUE

\* ws_task_progress, the finally clause:
\* connected_clients.get(task_id) is websocket
IsRegistered(w, task_id) == connected_clients[task_id] = w

\* ws_task_progress, the finally clause: the client went away
WsDisconnect(w) ==
  /\ up
  /\ sockets[w].state = "open"
  /\ sockets' = [sockets EXCEPT ![w].state = "closed"]
  /\ connected_clients' =
       [j \in Jobs |-> IF j = sockets[w].task /\ IsRegistered(w, j)
                       THEN 0 ELSE connected_clients[j]]
  /\ sent' = {}
  /\ last' = [Unobserved EXCEPT !.op = "ws_close", !.id = w]
  /\ UNCHANGED <<up, clock, nextId, nextFile, uploads, mono,
                 active_translations, active_tasks, pending_queue, tasks,
                 db, dbOrder, budget, call>>

(* --------------------------- specification --------------------------- *)
Next ==
  \/ OnStartup
  \/ Crash
  \/ Maintenance
  \/ Upload
  \/ \E f \in Files : RemoveUpload(f)
  \/ \E f \in Files, t \in {clock, clock + 1} : StartTranslationService(f, t)
  \/ \E j \in Jobs : TaskStart(j)
  \/ \E j \in Jobs : TaskCancelledBeforeStart(j)
  \/ \E j \in Jobs, p \in ProgressEvents : OnProgressUpdate(j, p)
  \/ \E j \in Jobs : OnFinish(j)
  \/ \E j \in Jobs : OnErrorEvent(j)
  \/ \E j \in Jobs : OnStreamEnd(j)
  \/ \E j \in Jobs : OnException(j)
  \/ \E j \in Jobs : OnCancelled(j)
  \/ \E j \in Jobs : WriteMono(j)
  \/ \E j \in Jobs : DeleteTasks(j)

Spec == Init /\ [][Next]_vars

\* Runs of one request more, without progress events, in which the pending
\* queue comes to hold two entries and GET /tasks is served.
InitQueue ==
  /\ Boot
  /\ budget = NJobs + 1
  /\ call = NoCall

NextQueue ==
  \/ OnStartup
  \/ Crash
  \/ Maintenance
  \/ Upload
  \/ \E f \in Files : RemoveUpload(f)
  \/ \E f \in Files, t \in {clock, clock + 1} : StartTranslationService(f, t)
  \/ \E j \in Jobs : TaskStart(j)
  \/ \E j \in Jobs : TaskCancelledBeforeStart(j)
  \/ \E j \in Jobs : OnStreamEnd(j)
  \/ \E j \in Jobs : OnCancelled(j)
  \/ \E j \in Jobs : DeleteTasks(j)
  \/ ListTasks

SpecQueue == InitQueue /\ [][NextQueue]_vars

\* Runs in which save_or_update_history can raise when a job's stream ends.
NextStore ==
  \/ OnStartup
  \/ Crash
  \/ Upload
  \/ \E f \in Files, t \in {clock, clock + 1} : StartTranslationService(f, t)
  \/ \E j \in Jobs : TaskStart(j)
  \/ \E j \in Jobs : TaskCancelledBeforeStart(j)
  \/ \E j \in Jobs : OnFinish(j)
  \/ \E j \in Jobs : OnStreamEnd(j)
  \/ \E j \in Jobs : OnStreamEndStoreDown(j)
  \/ \E j \in Jobs : OnCancelled(j)
  \/ \E j \in Jobs : DeleteTasks(j)

SpecStore == InitQueue /\ [][NextStore]_vars

\* Runs in which repo_list_tasks can raise during a periodic sweep.
NextSweep ==
  \/ OnStartup
  \/ Crash
  \/ Maintenance
  \/ MaintenanceStoreDown
  \/ Upload
  \/ \E f \in Files, t \in {clock, clock + 1} : StartTranslationService(f, t)
  \/ \E j \in Jobs : TaskStart(j)
  \/ \E j \in Jobs, p \in ProgressEvents : OnProgressUpdate(j, p)
  \/ \E j \in Jobs : OnStreamEnd(j)
  \/ \E j \in Jobs : OnCancelled(j)
  \/ \E j \in Jobs : DeleteTasks(j)

SpecSweep == Init /\ [][NextSweep]_vars

\* Runs in which clients subscribe to the events of a job.
NextWs ==
  \/ OnStartup
  \/ Crash
  \/ Upload
  \/ \E f \in Files, t \in {clock, clock + 1} : StartTranslationService(f, t)
  \/ \E j \in Jobs : TaskStart(j)
  \/ \E j \in Jobs : TaskCancelledBeforeStart(j)
  \/ \E j \in Jobs, p \in ProgressEvents : OnProgressUpdate(j, p)
  \/ \E j \in Jobs : OnFinish(j)
  \/ \E j \in Jobs : OnErrorEvent(j)
  \/ \E j \in Jobs : OnStreamEnd(j)
  \/ \E j \in Jobs : OnException(j)
  \/ \E j \in Jobs : OnCancelled(j)
  \/ \E j \in Jobs : DeleteTasks(j)
  \/ \E w \in 1..NSockets, j \in Jobs : WsConnect(w, j)
  \/ \E w \in 1..NSockets : WsDisconnect(w)

SpecWs == Init /\ [][NextWs]_vars

\* Runs in which a job can be subscribed to a second time while its first
\* websocket is still open.
NextSubscribers ==
  \/ OnStartup
  \/ Crash
  \/ Upload
  \/ \E f \in Files, t \in {clock, clock + 1} : StartTranslationService(f, t)
  \/ \E j \in Jobs : TaskStart(j)
  \/ \E j \in Jobs, p \in ProgressEvents : OnProgressUpdate(j, p)
  \/ \E j \in Jobs : OnStreamEnd(j)
  \/ \E j \in Jobs : DeleteTasks(j)
  \/ \E w \in Sockets, j \in Jobs : WsConnect(w, j)
  \/ \E w \in Sockets : WsDisconnect(w)

SpecSubscribers == Init /\ [][NextSubscribers]_vars

(* --------------------- core/image_translate.py ----------------------- *)
(* translate_image over a page whose layout boxes (after the class filter *)
(* and the containment filter) are numbered 1..n and taken as disjoint.   *)
(* A box carries what the OCR engine and the translator answer for it; a  *)
(* table box carries the page that its crop is.  The image is the paint   *)
(* of each box: as passed in, cleaned (with the text drawn on it), or     *)
(* pasted over by a changed table crop.                                   *)
MaxBoxes == 2
MaxInnerBoxes == 1
Texts == {"", "a", "b"}

\* ocr_engine(region_image) and _extract_texts: a text, or an exception
OcrResults ==
  {[ok |-> FALSE, text |-> ""]} \cup {[ok |-> TRUE, text |-> x] : x \in {"", "a"}}

\* config.translator.translate(src_text): a string, another type, or an
\* exception
Replies ==
  {[type |-> "raise", val |-> ""], [type |-> "other", val |-> ""]}
    \cup {[type |-> "str", val |-> x] : x \in Texts}

NoPage == [predict_ok |-> TRUE, boxes |-> <<>>]
NoOcr == [ok |-> FALSE, text |-> ""]
NoReply == [type |-> "raise", val |-> ""]

SeqsUpTo(S, n) == UNION {[1..k -> S] : k \in 0..n}

TextBoxes ==
  [cls : {"text"}, ocr : OcrResults, reply : Replies, inner : {NoPage}]

\* the crop of a table: a page of text boxes, or one the layout model fails on
InnerPages ==
  {[predict_ok |-> FALSE, boxes |-> <<>>]}
    \cup {[predict_ok |-> TRUE, boxes |-> s] : s \in SeqsUpTo(TextBoxes, MaxInnerBoxes)}

TableBoxes ==
  [cls : {"table"}, ocr : {NoOcr}, reply : {NoReply}, inner : InnerPages]

Pages ==
  {[predict_ok |-> FALSE, boxes |-> <<>>]}
    \cup {[predict_ok |-> TRUE, boxes |-> s] :
            s \in SeqsUpTo(TextBoxes \cup TableBoxes, MaxBoxes)}

\* the paint of a box
Orig == [state |-> "orig", text |-> ""]
Pasted == [state |-> "pasted", text |-> ""]
Cleaned(text) == [state |-> "clean", text |-> text]

\* the image as passed in
Original(page) == [i \in 1..Len(page.boxes) |-> Orig]

\* variant: a reply is taken unless the translator raised
TranslateOkUnlessRaised(reply) == reply.type # "raise"

\* translate_image, lines 193-197: isinstance(candidate, str)
TranslateOk(reply) == reply.type = "str"

\* variant: no translation is taken as unchanged
NeverSameText(translated_text, src_text) == FALSE

\* translate_image, line 211: translated_text == src_text
SameText(translated_text, src_text) == translated_text = src_text

\* translate_image, lines 188-191: the translator is asked unless src_text
\* is empty
Candidate(box) ==
  IF box.ocr.text # "" THEN box.reply ELSE [type |-> "str", val |-> ""]

\* variant: a pasted crop always counts as a change of the image
PasteAlways(final_image, paint) == Pasted

\* image.paste(final_image, region): the crop as translate_image returned it
Paste(final_image, paint) ==
  IF \A k \in 1..Len(final_image) : final_image[k] = Orig
  THEN paint ELSE Pasted

\* translate_image, lines 129-219: the loop over the boxes, from box i on
RECURSIVE RegionLoop(_, _, _)
\* translate_image
RECURSIVE TranslateImage(_)

RegionLoop(page, i, acc) ==
  IF i > Len(page.boxes) THEN acc
  ELSE
    LET box == page.boxes[i]
        seen == [acc EXCEPT !.visited = Append(@, i)]
        next ==
          IF box.cls = "table"
          THEN [seen EXCEPT !.input[i] =
                   Paste(TranslateImage(box.inner).image, @)]
          ELSE IF ~box.ocr.ok THEN seen
          ELSE
            LET src_text == box.ocr.text
                candidate == Candidate(box)
                asked == IF src_text # ""
                         THEN [seen EXCEPT !.asked = @ \cup {i}] ELSE seen
            IN IF ~TranslateOk(candidate) THEN asked
               ELSE IF SameText(candidate.val, src_text) THEN asked
               ELSE [asked EXCEPT
                       !.regions_to_clean = Append(@, i),
                       !.draw_jobs = Append(@, <<i, candidate.val>>)]
    IN RegionLoop(page, i + 1, next)

\* draw_jobs as a lookup: the text drawn on box i
DrawnText(draw_jobs, i) ==
  LET at == {k \in 1..Len(draw_jobs) : draw_jobs[k][1] = i}
  IN IF at = {} THEN "" ELSE draw_jobs[CHOOSE k \in at : TRUE][2]

\* no box was looked at
NoRun(page) ==
  [regions_to_clean |-> <<>>, draw_jobs |-> <<>>, asked |-> {},
   visited |-> <<>>, input |-> Original(page), image |-> Original(page)]

TranslateImage(page) ==
  IF ~page.predict_ok THEN NoRun(page)
  ELSE
    LET acc == RegionLoop(page, 1, NoRun(page))
        cleaned == {acc.regions_to_clean[k] : k \in 1..Len(acc.regions_to_clean)}
    IN IF acc.regions_to_clean = <<>>
       THEN [acc EXCEPT !.image = acc.input]
       ELSE [acc EXCEPT !.image =
               [i \in 1..Len(page.boxes) |->
                  IF i \in cleaned
                  THEN Cleaned(DrawnText(acc.draw_jobs, i))
                  ELSE acc.input[i]]]

\* a page is given to translate_image
InitImage ==
  /\ Boot
  /\ budget = NJobs
  /\ call \in {[fn |-> "translate_image", stage |-> "input", page |-> pg,
                first |-> NoRun(pg), second |-> NoRun(pg)] : pg \in Pages}

\* translate_image(image, config) returns
CallTranslateImage ==
  /\ call.fn = "translate_image"
  /\ call.stage = "input"
  /\ call' = [call EXCEPT !.stage = "once",
                          !.first = TranslateImage(call.page)]
  /\ UNCHANGED <<up, clock, nextId, nextFile, uploads, mono,
                 active_translations, active_tasks, pending_queue, tasks,
                 db, dbOrder, last, budget, connected_clients, sockets, sent>>

\* translate_image is called again on the image the first call was given,
\* if that call left it as it was; the layout model, the OCR engine and the
\* translator answer as before
CallTranslateImageAgain ==
  /\ call.fn = "translate_image"
  /\ call.stage = "once"
  /\ call.first.input = Original(call.page)
  /\ call' = [call EXCEPT !.stage = "twice",
                          !.second = TranslateImage(call.page)]
  /\ UNCHANGED <<up, clock, nextId, nextFile, uploads, mono,
                 active_translations, active_tasks, pending_queue, tasks,
                 db, dbOrder, last, budget, connected_clients, sockets, sent>>

NextImage == CallTranslateImage \/ CallTranslateImageAgain

SpecImage == InitImage /\ [][NextImage]_vars

(* ------------------- _remove_fully_contained_boxes ------------------- *)
\* boxes <<x0, y0, x1, y1>> with corners on a grid of 0..GridMax
GridMax == 3
MaxBoxCount == 3
Tolerances == {0, 1}

GridBoxes ==
  {<<x0, y0, x1, y1>> : x0 \in 0..GridMax, y0 \in 0..GridMax,
                        x1 \in 0..GridMax, y1 \in 0..GridMax}

\* the boxes a layout model gives: x0 < x1 and y0 < y1
LayoutBoxes == {b \in GridBoxes : b[1] < b[3] /\ b[2] < b[4]}

\* _area
Area(b) ==
  LET a == (b[3] - b[1]) * (b[4] - b[2]) IN IF a > 0 THEN a ELSE 0

\* variant: the tolerance is not applied
ContainsExactly(outer, inner, tolerance) ==
  /\ inner[1] >= outer[1]
  /\ inner[2] >= outer[2]
  /\ inner[3] <= outer[3]
  /\ inner[4] <= outer[4]

\* _contains
Contains(outer, inner, tolerance) ==
  /\ inner[1] >= outer[1] - tolerance
  /\ inner[2] >= outer[2] - tolerance
  /\ inner[3] <= outer[3] + tolerance
  /\ inner[4] <= outer[4] + tolerance

\* sorted(..., key=_area, reverse=True): b goes behind the boxes of its
\* area or more (boxes of one area keep their order)
RECURSIVE InsertByArea(_, _)
InsertByArea(sorted, b) ==
  IF sorted = <<>> THEN <<b>>
  ELSE IF Area(Head(sorted)) >= Area(b)
       THEN <<Head(sorted)>> \o InsertByArea(Tail(sorted), b)
       ELSE <<b>> \o sorted

RECURSIVE SortByAreaDescending(_)
SortByAreaDescending(boxes) ==
  IF boxes = <<>> THEN <<>>
  ELSE InsertByArea(SortByAreaDescending(SubSeq(boxes, 1, Len(boxes) - 1)),
                    boxes[Len(boxes)])

\* variant: the box is compared with every box before it, kept or not
ContainedInEarlier(sorted_boxes, kept, i, tolerance) ==
  \E k \in 1..(i - 1) : Contains(sorted_boxes[k], sorted_boxes[i], tolerance)

\* _remove_fully_contained_boxes, lines 67-70: some kept box contains the
\* box (kept holds places of sorted_boxes)
ContainedInKept(sorted_boxes, kept, i, tolerance) ==
  \E n \in 1..Len(kept) :
     Contains(sorted_boxes[kept[n]], sorted_boxes[i], tolerance)

\* _remove_fully_contained_boxes, lines 65-72: the places of sorted_boxes
\* that are kept
RECURSIVE KeepLoop(_, _, _, _)
KeepLoop(sorted_boxes, i, kept, tolerance) ==
  IF i > Len(sorted_boxes) THEN kept
  ELSE KeepLoop(sorted_boxes, i + 1,
                IF ContainedInKept(sorted_boxes, kept, i, tolerance)
                THEN kept ELSE Append(kept, i),
                tolerance)

\* _remove_fully_contained_boxes: the sorted boxes, the places kept and the
\* list returned
RemoveFullyContainedBoxes(boxes, tolerance) ==
  LET sorted_boxes == SortByAreaDescending(boxes)
      kept == KeepLoop(sorted_boxes, 1, <<>>, tolerance)
  IN [sorted_boxes |-> sorted_boxes, kept |-> kept,
      result |-> [n \in 1..Len(kept) |-> sorted_boxes[kept[n]]]]

NoFilter == [sorted_boxes |-> <<>>, kept |-> <<>>, result |-> <<>>]

\* a list of boxes and a tolerance are given to the filter
InitBoxes ==
  /\ Boot
  /\ budget = NJobs
  /\ call \in {[fn |-> "_remove_fully_contained_boxes", stage |-> "input",
                boxes |-> bs, tolerance |-> tol, out |-> NoFilter] :
               bs \in SeqsUpTo(LayoutBoxes, MaxBoxCount), tol \in Tolerances}

\* _remove_fully_contained_boxes(boxes, tolerance) returns
CallRemoveFullyContainedBoxes ==
  /\ call.fn = "_remove_fully_contained_boxes"
  /\ call.stage = "input"
  /\ call' = [call EXCEPT
                !.stage = "done",
                !.out = RemoveFullyContainedBoxes(call.boxes, call.tolerance)]
  /\ UNCHANGED <<up, clock, nextId, nextFile, uploads, mono,
                 active_translations, active_tasks, pending_queue, tasks,
                 db, dbOrder, last, budget, connected_clients, sockets, sent>>

NextBoxes == CallRemoveFullyContainedBoxes

SpecBoxes == InitBoxes /\ [][NextBoxes]_vars

(* ---------------------- calculate_auto_font_size ---------------------- *)
\* sides of the rectangles 0..MaxSide, sizes 1..MaxSize, texts of at most
\* MaxTextLen characters; padding_ratio has its default 1.0
MaxSide == 5
MaxSize == 4
MaxTextLen == 2

Characters == {"a", " "}
FontTexts == SeqsUpTo(Characters, MaxTextLen)
Directions == {"horizontal", "vertical"}
Rectangles == (0..MaxSide) \X (0..MaxSide)

\* not text.strip()
IsBlank(text) == \A i \in 1..Len(text) : text[i] = " "

\* math.ceil(a / b) for b > 0
CeilDiv(a, b) == (a + b - 1) \div b

AtLeastOne(n) == IF n >= 1 THEN n ELSE 1

\* variant: a side of 1 is refused as well
DegenerateUpToOne(text, bubble_width, bubble_height) ==
  text = <<>> \/ IsBlank(text) \/ bubble_width <= 1 \/ bubble_height <= 1

\* calculate_auto_font_size, line 304: the call is answered with 30
Degenerate(text, bubble_width, bubble_height) ==
  text = <<>> \/ IsBlank(text) \/ bubble_width <= 0 \/ bubble_height <= 0

\* calculate_auto_font_size, lines 333-342: W and H are the values the
\* loop sees; lines * mid * 1.05 <= H is compared in hundredths
Fits(N, W, H, text_direction, mid) ==
  IF text_direction = "horizontal"
  THEN LET chars_per_line == AtLeastOne(W \div mid)
           lines_needed == CeilDiv(N, chars_per_line)
       IN lines_needed * mid * 105 <= H * 100
  ELSE LET chars_per_column == AtLeastOne(H \div mid)
           columns_needed == CeilDiv(N, chars_per_column)
       IN columns_needed * mid * 105 <= W * 100

\* calculate_auto_font_size, lines 320-352: the binary search
RECURSIVE BinarySearch(_, _, _, _, _, _, _)
BinarySearch(N, W, H, text_direction, low, high, best_size) ==
  IF low > high THEN best_size
  ELSE LET mid == (low + high) \div 2
       IN IF mid = 0 THEN best_size
          ELSE IF Fits(N, W, H, text_direction, mid)
               THEN BinarySearch(N, W, H, text_direction, mid + 1, high, mid)
               ELSE BinarySearch(N, W, H, text_direction, low, mid - 1,
                                 best_size)

\* calculate_auto_font_size
CalculateAutoFontSize(text, bubble_width, bubble_height, text_direction, min_size, max_size) ==
  IF Degenerate(text, bubble_width, bubble_height) THEN 30
  ELSE LET N == Len(text)
           W == IF text_direction = "vertical" THEN bubble_height
                ELSE bubble_width
           H == IF text_direction = "vertical" THEN bubble_width
                ELSE bubble_height
           best_size == BinarySearch(N, W, H, text_direction,
                                     min_size, max_size, min_size)
       IN IF best_size >= min_size THEN best_size ELSE min_size

\* a text, a writing direction, size bounds and two rectangles
InitFont ==
  /\ Boot
  /\ budget = NJobs
  /\ call \in {[fn |-> "calculate_auto_font_size", stage |-> "input",
                text |-> tx, text_direction |-> dir,
                min_size |-> lo, max_size |-> hi,
                R1 |-> r1, R2 |-> r2, size1 |-> 0, size2 |-> 0] :
               tx \in FontTexts, dir \in Directions,
               lo \in 1..MaxSize, hi \in 1..MaxSize,
               r1 \in Rectangles, r2 \in Rectangles}

\* calculate_auto_font_size returns for the first rectangle
CallFontSize ==
  /\ call.fn = "calculate_auto_font_size"
  /\ call.stage = "input"
  /\ call' = [call EXCEPT
                !.stage = "first",
                !.size1 = CalculateAutoFontSize(call.text, call.R1[1],
                            call.R1[2], call.text_direction,
                            call.min_size, call.max_size)]
  /\ UNCHANGED <<up, clock, nextId, nextFile, uploads, mono,
                 active_translations, active_tasks, pending_queue, tasks,
                 db, dbOrder, last, budget, connected_clients, sockets, sent>>

\* calculate_auto_font_size returns for the second rectangle
CallFontSizeAgain ==
  /\ call.fn = "calculate_auto_font_size"
  /\ call.stage = "first"
  /\ call' = [call EXCEPT
                !.stage = "second",
                !.size2 = CalculateAutoFontSize(call.text, call.R2[1],
                            call.R2[2], call.text_direction,
                            call.min_size, call.max_size)]
  /\ UNCHANGED <<up, clock, nextId, nextFile, uploads, mono,
                 active_translations, active_tasks, pending_queue, tasks,
                 db, dbOrder, last, budget, connected_clients, sockets, sent>>

NextFont == CallFontSize \/ CallFontSizeAgain

SpecFont == InitFont /\ [][NextFont]_vars

(* ------------- compose_single_line and _compose_text_simple ------------- *)
\* a line of 1..MaxTokens OCR fragments with texts of at most MaxTokenLen
\* characters: a letter, a hyphen, a comma, an opening bracket, a blank
MaxTokens == 2
MaxTokenLen == 2

Letters == {"a"}
HYPHENS == {"-"}
LeadingPunctuation == {","}
OpeningBrackets == {"("}
LineCharacters == {"a", "-", ",", "(", " "}
TokenTexts == SeqsUpTo(LineCharacters, MaxTokenLen)
TokenHeights == {2, 10}
TokenGaps == {1, 3, 4}
LangIns == {"en", "zh"}

RECURSIVE LStrip(_)
LStrip(s) ==
  IF s # <<>> /\ Head(s) = " " THEN LStrip(Tail(s)) ELSE s

\* str.rstrip(chars)
RECURSIVE RStrip(_, _)
RStrip(s, chars) ==
  IF s # <<>> /\ s[Len(s)] \in chars
  THEN RStrip(SubSeq(s, 1, Len(s) - 1), chars) ELSE s

\* str.strip()
Strip(s) == RStrip(LStrip(s), {" "})

\* s[-1:] and s[:1]
LastChar(s) == IF s = <<>> THEN <<>> ELSE <<s[Len(s)]>>
FirstChar(s) == IF s = <<>> THEN <<>> ELSE <<s[1]>>

\* c in a set of characters
InSet(c, chars) == c # <<>> /\ c[1] \in chars

\* c in a string of the characters: the empty string is in every string
InString(c, chars) == c = <<>> \/ c[1] \in chars

\* is_wordy
IsWordy(s) == s # <<>> /\ \A i \in 1..Len(s) : s[i] \in Letters

\* is_cjk_lang
IsCjkLang(lang_in) == lang_in \in {"zh", "zh-cn", "zh-tw", "ja", "ko"}

\* "".join(parts)
RECURSIVE Join(_)
Join(parts) == IF parts = <<>> THEN <<>> ELSE Head(parts) \o Join(Tail(parts))

\* " ".join(parts)
RECURSIVE JoinWithSpace(_)
JoinWithSpace(parts) ==
  IF parts = <<>> THEN <<>>
  ELSE IF Len(parts) = 1 THEN parts[1]
  ELSE parts[1] \o <<" ">> \o JoinWithSpace(Tail(parts))

\* the fragments of ln that have a text
RECURSIVE WithText(_)
WithText(ln) ==
  IF ln = <<>> THEN <<>>
  ELSE IF Head(ln).text # <<>> THEN <<Head(ln)>> \o WithText(Tail(ln))
  ELSE WithText(Tail(ln))

RECURSIVE InsertNumber(_, _)
InsertNumber(sorted, n) ==
  IF sorted = <<>> THEN <<n>>
  ELSE IF Head(sorted) <= n THEN <<Head(sorted)>> \o InsertNumber(Tail(sorted), n)
  ELSE <<n>> \o sorted

RECURSIVE SortNumbers(_)
SortNumbers(ns) ==
  IF ns = <<>> THEN <<>>
  ELSE InsertNumber(SortNumbers(Tail(ns)), Head(ns))

\* twice statistics.median(ns), ns not empty
TwiceMedian(ns) ==
  LET s == SortNumbers(ns)
      n == Len(s)
  IN IF n % 2 = 1 THEN 2 * s[(n + 1) \div 2]
     ELSE s[n \div 2] + s[n \div 2 + 1]

\* compose_single_line, lines 779-781: gap <= gap_threshold with
\* gap_threshold = max(1.0, h_med_line * 0.3), compared in twentieths
WithinGapThreshold(gap, tokens) ==
  LET heights == [i \in 1..Len(tokens) |->
                    IF tokens[i]._y1 - tokens[i]._y0 >= 1
                    THEN tokens[i]._y1 - tokens[i]._y0 ELSE 1]
      m == 3 * TwiceMedian(heights)
  IN 20 * gap <= (IF m >= 20 THEN m ELSE 20)

\* variant: two wordy fragments are one word whatever the gap
SameWordAtAnyGap(prev_text, cur_text, gap, tokens) ==
  IsWordy(prev_text) /\ IsWordy(cur_text)

\* compose_single_line, line 813: one word split in two
SameWord(prev_text, cur_text, gap, tokens) ==
  IsWordy(prev_text) /\ IsWordy(cur_text) /\ WithinGapThreshold(gap, tokens)

\* compose_single_line, lines 787-816: the loop over the fragments
RECURSIVE ComposeLoop(_, _, _)
ComposeLoop(tokens, idx, out_parts) ==
  IF idx > Len(tokens) THEN out_parts
  ELSE
    LET cur_text == Strip(tokens[idx].text) IN
    IF idx = 1 THEN ComposeLoop(tokens, idx + 1, Append(out_parts, cur_text))
    ELSE
      LET prev_text == Strip(tokens[idx - 1].text)
          prev_part == out_parts[Len(out_parts)]
          prev_last == LastChar(prev_part)
          cur_first == FirstChar(cur_text)
          gap == tokens[idx]._x0 - tokens[idx - 1]._x1
      IN IF InSet(prev_last, HYPHENS) /\ InSet(cur_first, Letters)
         THEN ComposeLoop(tokens, idx + 1,
                [out_parts EXCEPT ![Len(out_parts)] =
                   RStrip(prev_part, {prev_last[1]}) \o cur_text])
         ELSE IF InString(cur_first, LeadingPunctuation)
         THEN ComposeLoop(tokens, idx + 1, Append(out_parts, cur_text))
         ELSE IF InString(prev_last, OpeningBrackets)
         THEN ComposeLoop(tokens, idx + 1, Append(out_parts, cur_text))
         ELSE IF SameWord(prev_text, cur_text, gap, tokens)
         THEN ComposeLoop(tokens, idx + 1, Append(out_parts, cur_text))
         ELSE ComposeLoop(tokens, idx + 1,
                          Append(out_parts, <<" ">> \o cur_text))

\* _compose_text_with_linebreaks.compose_single_line; no text of the model
\* has a CJK character
ComposeSingleLine(ln, lang_in) ==
  LET tokens == WithText(ln)
  IN IF tokens = <<>> THEN <<>>
     ELSE IF IsCjkLang(lang_in)
          THEN Join([i \in 1..Len(tokens) |-> Strip(tokens[i].text)])
          ELSE Join(ComposeLoop(tokens, 1, <<>>))

\* the stripped texts of ln that are not empty
RECURSIVE StrippedTexts(_)
StrippedTexts(ln) ==
  IF ln = <<>> THEN <<>>
  ELSE IF Strip(Head(ln).text) # <<>>
       THEN <<Strip(Head(ln).text)>> \o StrippedTexts(Tail(ln))
       ELSE StrippedTexts(Tail(ln))

\* _compose_text_simple for one line
ComposeTextSimple(ln) == JoinWithSpace(StrippedTexts(ln))

\* str.split(" ")
RECURSIVE SplitOnSpaces(_)
SplitOnSpaces(s) ==
  IF \A i \in 1..Len(s) : s[i] # " " THEN <<s>>
  ELSE LET i == CHOOSE k \in 1..Len(s) :
                  s[k] = " " /\ \A j \in 1..(k - 1) : s[j] # " "
       IN <<SubSeq(s, 1, i - 1)>> \o SplitOnSpaces(SubSeq(s, i + 1, Len(s)))

\* the fragments of a line, left to right: each one unit wide, gaps[i]
\* after the fragment before it
RECURSIVE BuildLine(_, _, _, _)
BuildLine(texts, heights, gaps, x) ==
  IF texts = <<>> THEN <<>>
  ELSE LET x0 == x + Head(gaps)
       IN <<[text |-> Head(texts), _x0 |-> x0, _x1 |-> x0 + 1,
             _y0 |-> 0, _y1 |-> Head(heights)]>>
          \o BuildLine(Tail(texts), Tail(heights), Tail(gaps), x0 + 1)

\* the lines of k fragments
LinesOf(k) ==
  {BuildLine(txs, hs, gs, 0) :
     txs \in [1..k -> TokenTexts], hs \in [1..k -> TokenHeights],
     gs \in [1..k -> TokenGaps]}

NoText == <<"?">>

\* one line and the language of the page
InitLine ==
  /\ Boot
  /\ budget = NJobs
  /\ \E k \in 1..MaxTokens :
       call \in {[fn |-> "compose_single_line", stage |-> "input",
                   ln |-> ln, lang_in |-> lang,
                   composed |-> NoText, simple |-> NoText] :
                  ln \in LinesOf(k), lang \in LangIns}

\* compose_single_line(ln) returns
CallComposeSingleLine ==
  /\ call.fn = "compose_single_line"
  /\ call.stage = "input"
  /\ call' = [call EXCEPT
                !.stage = "composed",
                !.composed = ComposeSingleLine(call.ln, call.lang_in)]
  /\ UNCHANGED <<up, clock, nextId, nextFile, uploads, mono,
                 active_translations, active_tasks, pending_queue, tasks,
                 db, dbOrder, last, budget, connected_clients, sockets, sent>>

\* _compose_text_simple([ln]) returns
CallComposeTextSimple ==
  /\ call.fn = "compose_single_line"
  /\ call.stage = "composed"
  /\ call' = [call EXCEPT
                !.stage = "both",
                !.simple = ComposeTextSimple(call.ln)]
  /\ UNCHANGED <<up, clock, nextId, nextFile, uploads, mono,
                 active_translations, active_tasks, pending_queue, tasks,
                 db, dbOrder, last, budget, connected_clients, sockets, sent>>

NextLine == CallComposeSingleLine \/ CallComposeTextSimple

SpecLine == InitLine /\ [][NextLine]_vars

(* ----------------------- hook/babel_doc_hook.py ---------------------- *)
(* hook_trans and unhook_trans on the translator of a translation config. *)
(* A translator is its prompt method and the two attributes the hook      *)
(* keeps on it; an attribute that is not set reads "absent".              *)
MaxCalls == 3
\* a translation config: None, one without translator, one with it
HookConfigs == {"none", "no_translator", "translator"}

\* the translator as babeldoc constructs it
NewTranslator ==
  [prompt |-> "original", original_prompt |-> "absent",
   prompt_hooked |-> "absent"]

\* variant: the hook is installed again on a hooked translator
NeverHooked(translator) == FALSE

\* hook_trans: getattr(translator, "_prompt_hooked", False)
AlreadyHooked(translator) == translator.prompt_hooked = "True"

\* hook_trans(translation_config) on the translator of the config
HookTrans(translator, translation_config) ==
  IF translation_config = "none" THEN translator
  ELSE IF translation_config = "no_translator" THEN translator
  ELSE IF AlreadyHooked(translator) THEN translator
  ELSE [translator EXCEPT
          !.original_prompt = translator.prompt,
          !.prompt = "replacement",
          !.prompt_hooked = "True"]

\* unhook_trans(translation_config) on the translator of the config
UnhookTrans(translator, translation_config) ==
  IF translation_config = "none" THEN translator
  ELSE IF translation_config = "no_translator" THEN translator
  ELSE IF translator.original_prompt \in {"absent", "None"} THEN translator
  ELSE [translator EXCEPT
          !.prompt = translator.original_prompt,
          !.original_prompt = "absent",
          !.prompt_hooked = "absent"]

InitHook ==
  /\ Boot
  /\ budget = NJobs
  /\ call = [fn |-> "hook", translator |-> NewTranslator, calls |-> <<>>]

\* hook_trans is called with a config
CallHookTrans(translation_config) ==
  /\ call.fn = "hook"
  /\ Len(call.calls) < MaxCalls
  /\ call' = [call EXCEPT
                !.translator = HookTrans(call.translator, translation_config),
                !.calls = Append(@, <<"hook_trans", translation_config>>)]
  /\ UNCHANGED <<up, clock, nextId, nextFile, uploads, mono,
                 active_translations, active_tasks, pending_queue, tasks,
                 db, dbOrder, last, budget, connected_clients, sockets, sent>>

\* unhook_trans is called with a config
CallUnhookTrans(translation_config) ==
  /\ call.fn = "hook"
  /\ Len(call.calls) < MaxCalls
  /\ call' = [call EXCEPT
                !.translator = UnhookTrans(call.translator, translation_config),
                !.calls = Append(@, <<"unhook_trans", translation_config>>)]
  /\ UNCHANGED <<up, clock, nextId, nextFile, uploads, mono,
                 active_translations, active_tasks, pending_queue, tasks,
                 db, dbOrder, last, budget, connected_clients, sockets, sent>>

NextHook ==
  \/ \E c \in HookConfigs : CallHookTrans(c)
  \/ \E c \in HookConfigs : CallUnhookTrans(c)

SpecHook == InitHook /\ [][NextHook]_vars

(* ------------------------------ claims ------------------------------- *)
\* the calls of schedule_translation made by the last handler
LastCalls == {last.calls[i] : i \in 1..Len(last.calls)}

\* C1: in every reachable state the number of jobs registered as running
\* (entries of active_tasks) is at most MAX_CONCURRENT.
C1_RunningWithinCap == Cardinality(active_tasks) <= MAX_CONCURRENT

\* C1 witness: the cap is reached while a job waits in the queue
C1_CapReachedWhileWaiting ==
  /\ Cardinality(active_tasks) = MAX_CONCURRENT
  /\ pending_queue # <<>>

\* C2: jobs are started in the order of created_at: no job started by a
\* handler (at submission, by drain_queue, or at process start) leaves behind
\* in the pending queue a job with a strictly earlier created_at.
C2_StartsFollowCreatedAt ==
  \A i \in 1..Len(last.started) : \A k \in 1..Len(pending_queue) :
    ~(pending_queue[k][1] < last.started[i][1])

\* C3: schedule_translation starts the job, sets status running and returns
\* "running" exactly when the running count is below the cap at the call;
\* otherwise it starts nothing, sets status queued, appends exactly the entry
\* (created_at, task_id, config) and returns "queued".
C3_ScheduleTranslationContract ==
  \A c \in LastCalls :
    /\ c.ret \in {"running", "queued"}
    /\ (c.ret = "running") <=> (Cardinality(c.tk_before) < MAX_CONCURRENT)
    /\ c.ret = "running" =>
         /\ c.tk_after = c.tk_before \cup {c.task_id}
         /\ c.task_id \notin c.tk_before
         /\ c.ts_after[c.task_id].state = "created"
         /\ \A j \in Jobs \ {c.task_id} : c.ts_after[j] = c.ts_before[j]
         /\ c.status_after = "running"
         /\ c.q_after = c.q_before
    /\ c.ret = "queued" =>
         /\ c.tk_after = c.tk_before
         /\ c.ts_after = c.ts_before
         /\ c.status_after = "queued"
         /\ c.q_after = Append(c.q_before, <<c.created_at, c.task_id, c.config>>)

\* C3 witness: a submission found the cap reached and was queued
C3_SubmissionQueued ==
  /\ last.op = "submit"
  /\ last.ret = "queued"
  /\ \E c \in LastCalls : c.task_id = last.id /\ c.task_id \notin c.tk_after
  /\ \E k \in 1..Len(pending_queue) : pending_queue[k][2] = last.id

\* C4: a job's task that has terminated, for whatever reason, is no longer
\* registered in active_tasks (its slot is released), and after its
\* termination no job waits while a slot is free.
C4_TerminatedTaskReleasesSlot ==
  /\ \A j \in active_tasks : tasks[j].state # "done"
  /\ last.op \in {"stream_end", "exception", "cancelled"} =>
       (pending_queue = <<>> \/ Cardinality(active_tasks) = MAX_CONCURRENT)

\* C5: when a running job has been cancelled (cancel_task returned true) and
\* its task has handled the cancellation, the job's in-memory status and its
\* persisted status are both cancelled.
C5_CancelledIsRecorded ==
  last.op = "cancelled" =>
    /\ active_translations[last.id].status = "cancelled"
    /\ db[last.id].status = "cancelled"

\* C6: after a queued job is cancelled it is out of the pending queue, has
\* no task, and status cancelled is recorded for it.
C6_WithdrawnIsRecordedCancelled ==
  (last.op = "delete" /\ last.ret = "withdrawn") =>
    /\ \A k \in 1..Len(pending_queue) : pending_queue[k][2] # last.id
    /\ last.id \notin active_tasks
    /\ tasks[last.id].state = "none"
    /\ \/ active_translations[last.id].status = "cancelled"
       \/ db[last.id].status = "cancelled"

\* C7: when the pipeline raises an exception other than a cancellation, the
\* job's status is error with the exception text as its error, in memory and
\* in the job store; the task ends in its own handler, its slot is released
\* and the queue has been drained.
C7_ExceptionRecordedAsError ==
  last.op = "exception" =>
    /\ active_translations[last.id].status = "error"
    /\ active_translations[last.id].error = "exception_text"
    /\ db[last.id].status = "error"
    /\ db[last.id].error = "exception_text"
    /\ last.id \notin active_tasks
    /\ tasks[last.id].state = "none"
    /\ (pending_queue = <<>> \/ Cardinality(active_tasks) = MAX_CONCURRENT)

\* C7 witness: an exception ended a job and the waiting job was admitted
C7_ExceptionThenAdmission ==
  /\ last.op = "exception"
  /\ active_translations[last.id].status = "error"
  /\ last.started # <<>>

\* C8: at every suspension point the persisted status of each job of the
\* in-memory table equals its in-memory status.
C8_PersistedStatusEqualsMemory ==
  \A j \in Jobs :
    active_translations[j].status # "absent" =>
      db[j].status = active_translations[j].status

\* the rows that recovery is to take up: unfinished, below 100, source present
Resumable(rows, files) ==
  {j \in Jobs : /\ rows[j].status \in {"running", "queued"}
                /\ rows[j].progress < 100
                /\ rows[j].filename \in files}

\* C9: at process start every persisted job that is running or queued with
\* progress below 100 and whose source file exists is handed to
\* schedule_translation exactly once, with the created_at of its row; no
\* other job is.
C9_RecoveryResubmitsOnce ==
  last.op = "startup" =>
    \A j \in Jobs :
      LET mine == {i \in 1..Len(last.calls) : last.calls[i].task_id = j}
      IN IF j \in Resumable(last.pre, uploads)
         THEN /\ Cardinality(mine) = 1
              /\ \A i \in mine : last.calls[i].created_at = last.pre[j].created_at
              /\ j \in active_tasks \/ \E k \in 1..Len(pending_queue) :
                                          pending_queue[k][2] = j
         ELSE mine = {}

\* C9 witness: a start that took up two jobs, one started and one queued
C9_TwoJobsRecovered ==
  /\ last.op = "startup"
  /\ Cardinality(Resumable(last.pre, uploads)) = 2
  /\ \E c \in LastCalls : c.ret = "running"
  /\ \E c \in LastCalls : c.ret = "queued"

\* the row was running at 100 with a mono pdf in its output directory
WasStuck(j) ==
  /\ last.pre[j].status = "running"
  /\ last.pre[j].progress >= 100
  /\ j \in mono

\* C10 as stated: after a sweep every persisted job whose source file is
\* missing is invalid, and every job that was running at progress >= 100 with
\* a completed output file is completed.
C10_SweepAsStated ==
  last.op = "maintenance" =>
    \A j \in Jobs :
      db[j].status # "absent" =>
        /\ db[j].filename \notin uploads => db[j].status = "invalid"
        /\ WasStuck(j) => db[j].status = "completed"

\* C10 amended: after a sweep every persisted job whose source file is
\* missing is invalid unless it was running at progress >= 100 with a
\* completed output file, and every job that was so is completed.
C10_SweepAmended ==
  last.op = "maintenance" =>
    \A j \in Jobs :
      db[j].status # "absent" =>
        /\ (db[j].filename \notin uploads /\ ~WasStuck(j)) =>
             db[j].status = "invalid"
        /\ WasStuck(j) => db[j].status = "completed"

\* C10 witness: a sweep marked a finished job invalid and completed a stuck one
C10_SweepMarkedAndCompleted ==
  /\ last.op = "maintenance"
  /\ \E j \in Jobs : /\ last.pre[j].status \in {"completed", "error"}
                     /\ db[j].status = "invalid"
  /\ \E j \in Jobs : WasStuck(j) /\ db[j].status = "completed"

\* the entries of the pending queue that hold task_id
EntriesOf(task_id) ==
  {i \in 1..Len(pending_queue) : pending_queue[i][2] = task_id}

\* C11 as stated: after GET /tasks every job that is in the pending queue
\* with status queued reports 1 + the number of queued jobs with a strictly
\* earlier created_at; a job whose status is not queued, or that is not in
\* the queue, reports no position.
C11_PositionCountsEarlier ==
  last.op = "list" =>
    \A j \in Jobs :
      IF db[j].status = "queued" /\ EntriesOf(j) # {}
      THEN \A i \in EntriesOf(j) :
             last.positions[j] =
               1 + Cardinality({k \in 1..Len(pending_queue) :
                                  pending_queue[k][1] < pending_queue[i][1]})
      ELSE last.positions[j] = 0

\* C11 amended: the position is 1 + the number of queued jobs with a
\* strictly earlier created_at + the number of queued jobs with the same
\* created_at that stand before the job in the pending queue.
C11_PositionIsStableRank ==
  last.op = "list" =>
    \A j \in Jobs :
      IF db[j].status = "queued" /\ EntriesOf(j) # {}
      THEN \A i \in EntriesOf(j) :
             last.positions[j] =
               1 + Cardinality({k \in 1..Len(pending_queue) :
                                  \/ pending_queue[k][1] < pending_queue[i][1]
                                  \/ /\ pending_queue[k][1] = pending_queue[i][1]
                                     /\ k < i})
      ELSE last.positions[j] = 0

\* C11 witness: two queued jobs of one created_at are listed as first and
\* second
C11_TiedJobsListedInTurn ==
  /\ last.op = "list"
  /\ Len(pending_queue) = 2
  /\ pending_queue[1][1] = pending_queue[2][1]
  /\ last.positions[pending_queue[1][2]] = 1
  /\ last.positions[pending_queue[2][2]] = 2

\* task_id has an entry in the pending queue
Queued(task_id) == \E i \in 1..Len(pending_queue) : pending_queue[i][2] = task_id

\* what a step of job a leaves of every other job b: b keeps its place in
\* the queue or the running set, its record and its row, unless drain_queue
\* admits it; and what the step sends is an event of a, to a websocket that
\* was connected for a
LeavesOthersAlone(a) ==
  /\ \A b \in Jobs \ {a} :
       /\ b \in active_tasks => b \in active_tasks'
       /\ Queued(b) => (Queued(b)' \/ b \in active_tasks')
       /\ active_translations'[b].status \in {"error", "cancelled"} =>
            active_translations'[b].status = active_translations[b].status
       /\ db'[b].status \in {"error", "cancelled"} =>
            db'[b].status = db[b].status
       /\ \/ /\ active_translations'[b] = active_translations[b]
             /\ db'[b] = db[b]
             /\ tasks'[b] = tasks[b]
          \/ /\ Queued(b) /\ ~Queued(b)'
             /\ b \in active_tasks'
             /\ active_translations'[b].status = "running"
  /\ \A p \in sent' : p[2] = a /\ sockets[p[1]].task = a

Translated == call.fn = "translate_image" /\ call.stage # "input"

\* the boxes of the inpaint list and of the draw list of the first call
InpaintList ==
  {call.first.regions_to_clean[k] : k \in 1..Len(call.first.regions_to_clean)}
DrawList ==
  {call.first.draw_jobs[k][1] : k \in 1..Len(call.first.draw_jobs)}

\* C13: a region is in the inpaint list and in the draw list only if the
\* translator was asked, returned a string, and the string differs from the
\* source text; a region whose translated text equals its source text, and a
\* region with an empty source text (for which the translator is not
\* asked), is in neither list.
C13_OnlyChangedRegionsForwarded ==
  Translated =>
    /\ InpaintList = DrawList
    /\ \A i \in 1..Len(call.page.boxes) :
         LET box == call.page.boxes[i]
         IN /\ i \in InpaintList \cup DrawList =>
                 /\ box.cls = "text"
                 /\ box.ocr.ok
                 /\ box.ocr.text # ""
                 /\ box.reply.type = "str"
                 /\ box.reply.val # box.ocr.text
            /\ (box.cls = "text" /\ box.ocr.ok /\ box.ocr.text = "") =>
                 /\ i \notin InpaintList \cup DrawList
                 /\ i \notin call.first.asked
            /\ (box.cls = "text" /\ box.ocr.ok /\ box.reply.type = "str"
                  /\ box.reply.val = box.ocr.text) =>
                 i \notin InpaintList \cup DrawList

\* C13 witness: of two regions with text the one whose translation differs
\* is forwarded and the one whose translation equals the source is not
C13_ChangedForwardedUnchangedNot ==
  /\ Translated
  /\ \E i, j \in 1..Len(call.page.boxes) :
       /\ i \in InpaintList
       /\ j \notin InpaintList
       /\ call.page.boxes[j].cls = "text"
       /\ call.page.boxes[j].ocr.text = "a"
       /\ call.page.boxes[j].reply = [type |-> "str", val |-> "a"]

\* OCR or translation fails for the box
RegionFails(box) ==
  /\ box.cls = "text"
  /\ \/ ~box.ocr.ok
     \/ box.ocr.text # "" /\ box.reply.type \in {"raise", "other"}

\* C16: a region for which OCR raises, or the translator raises or returns
\* a non-string, is neither inpainted nor redrawn; every region of the page
\* is still gone through, the regions whose translation differs are
\* forwarded, and translate_image returns an image.
C16_FailedRegionLeftUntouched ==
  Translated =>
    \A i \in 1..Len(call.page.boxes) :
      RegionFails(call.page.boxes[i]) =>
        /\ i \notin InpaintList \cup DrawList
        /\ call.first.image[i] = Orig
        /\ call.first.visited = [k \in 1..Len(call.page.boxes) |-> k]
        /\ DOMAIN call.first.image = 1..Len(call.page.boxes)
        /\ \A j \in 1..Len(call.page.boxes) :
             LET other == call.page.boxes[j]
             IN (other.cls = "text" /\ other.ocr.ok /\ other.ocr.text # ""
                   /\ other.reply.type = "str"
                   /\ other.reply.val # other.ocr.text)
                => /\ j \in InpaintList
                   /\ call.first.image[j] = Cleaned(other.reply.val)

\* C16 witness: the first region fails and the second one is repainted
C16_FailureThenRepaint ==
  /\ Translated
  /\ Len(call.page.boxes) = 2
  /\ RegionFails(call.page.boxes[1])
  /\ call.first.image[2].state = "clean"

\* C17 as stated: when the repaint list is empty at the end of the region
\* loop, the returned image equals the image as it was passed in, and a
\* second run on the same input returns the same image.
C17_EmptyRepaintReturnsInput ==
  Translated =>
    (call.first.regions_to_clean = <<>> =>
       /\ call.first.image = Original(call.page)
       /\ call.stage = "twice" => call.second.image = call.first.image)

\* the crop of table box i came back changed from the recursive call
TableChanged(page, i) ==
  /\ page.boxes[i].cls = "table"
  /\ TranslateImage(page.boxes[i].inner).image # Original(page.boxes[i].inner)

\* C17 amended: when the repaint list is empty and no table box's crop came
\* back changed from its recursive call, the returned image equals the image
\* as passed in, the image passed in is left as it was, and a second run
\* returns the same image; when a table crop came back changed the returned
\* image differs from the one passed in.
C17_EmptyRepaintAndTablesUnchanged ==
  Translated =>
    (call.first.regions_to_clean = <<>> =>
       IF \E i \in 1..Len(call.page.boxes) : TableChanged(call.page, i)
       THEN call.first.image # Original(call.page)
       ELSE /\ call.first.image = Original(call.page)
            /\ call.first.input = Original(call.page)
            /\ call.stage = "twice" => call.second.image = call.first.image)

\* C17 witness: a page with a table whose crop stays as it was and a region
\* that needs no repaint has been run twice
C17_TwiceWithTable ==
  /\ call.fn = "translate_image"
  /\ call.stage = "twice"
  /\ call.first.regions_to_clean = <<>>
  /\ \E i \in 1..Len(call.page.boxes) :
       /\ call.page.boxes[i].cls = "table"
       /\ call.page.boxes[i].inner.boxes # <<>>
  /\ call.second.image = Original(call.page)

\* the containment filter has returned
Filtered == call.fn = "_remove_fully_contained_boxes" /\ call.stage = "done"

\* the places of the sorted boxes that survive
Survivors == {call.out.kept[n] : n \in 1..Len(call.out.kept)}

\* all four edges of inner lie inside outer, within the tolerance
Within(inner, outer, tolerance) ==
  /\ outer[1] - tolerance <= inner[1]
  /\ outer[2] - tolerance <= inner[2]
  /\ inner[3] <= outer[3] + tolerance
  /\ inner[4] <= outer[4] + tolerance

\* the area of a box with x0 < x1 and y0 < y1
Extent(b) == (b[3] - b[1]) * (b[4] - b[2])

Sized == call.fn = "calculate_auto_font_size" /\ call.stage # "input"

\* both sizes have been returned
SizedTwice == call.fn = "calculate_auto_font_size" /\ call.stage = "second"

\* the sizes s of lo..hi at which ceil(N / max(1, floor(W / s))) lines of
\* height 1.05 * s are within H
FittingSizes(N, W, H, lo, hi) ==
  {s \in lo..hi :
     LET per_line == IF W \div s >= 1 THEN W \div s ELSE 1
         lines == (N + per_line - 1) \div per_line
     IN lines * s * 105 <= H * 100}

\* the largest of them, lo when there is none
LargestFitting(N, W, H, lo, hi) ==
  LET S == FittingSizes(N, W, H, lo, hi)
  IN IF S = {} THEN lo ELSE CHOOSE s \in S : \A u \in S : u <= s

\* C18: for a text of N >= 1 characters and positive sides the size
\* returned is the largest s of min_size..max_size at which
\* ceil(N / max(1, floor(W / s))) lines of height 1.05 * s are within H
\* (width W and height H exchanged for vertical writing), and min_size when
\* no size fits.
C18_LargestFittingSizeReturned ==
  (Sized /\ Len(call.text) >= 1 /\ call.R1[1] > 0 /\ call.R1[2] > 0) =>
    call.size1 =
      IF call.text_direction = "horizontal"
      THEN LargestFitting(Len(call.text), call.R1[1], call.R1[2],
                          call.min_size, call.max_size)
      ELSE LargestFitting(Len(call.text), call.R1[2], call.R1[1],
                          call.min_size, call.max_size)

\* C19 as stated: for one text, direction and size bounds, the rectangle
\* of the larger area never gets the smaller size.
C19_MonotonicInArea ==
  (SizedTwice /\ call.R2[1] * call.R2[2] > call.R1[1] * call.R1[2]) =>
    call.size2 >= call.size1

\* C19 amended: for a text that is not blank, one direction and one pair of
\* size bounds, a rectangle with positive sides that is at least as wide
\* and at least as high as another never gets the smaller size.
C19_MonotonicInBothSides ==
  (/\ SizedTwice
   /\ ~IsBlank(call.text)
   /\ call.R1[1] > 0 /\ call.R1[2] > 0
   /\ call.R2[1] >= call.R1[1] /\ call.R2[2] >= call.R1[2]) =>
     call.size2 >= call.size1

\* C19 witness: the second rectangle is wider and higher and gets a
\* strictly larger size, between the bounds
C19_LargerRectangleLargerSize ==
  /\ SizedTwice
  /\ ~IsBlank(call.text)
  /\ call.R1[1] > 0 /\ call.R1[2] > 0
  /\ call.R2[1] > call.R1[1] /\ call.R2[2] > call.R1[2]
  /\ call.min_size < call.size1
  /\ call.size1 < call.size2
  /\ call.size2 < call.max_size

\* the line has been composed
Composed == call.fn = "compose_single_line" /\ call.stage # "input"

\* the line has been composed both ways
ComposedBoth == call.fn = "compose_single_line" /\ call.stage = "both"

\* every gap of the line is larger than the word-gap threshold
GapsAboveThreshold ==
  \A i \in 2..Len(call.ln) :
     ~WithinGapThreshold(call.ln[i]._x0 - call.ln[i - 1]._x1, call.ln)

\* every fragment has a text, without blanks
TokensWithoutBlanks ==
  \A i \in 1..Len(call.ln) :
     /\ call.ln[i].text # <<>>
     /\ \A n \in 1..Len(call.ln[i].text) : call.ln[i].text[n] # " "

\* every fragment is made of letters only
TokensOfLetters ==
  \A i \in 1..Len(call.ln) :
     /\ call.ln[i].text # <<>>
     /\ \A n \in 1..Len(call.ln[i].text) : call.ln[i].text[n] = "a"

\* C20 as stated: a line of tokens in Latin script (letters, hyphens,
\* punctuation, brackets; page language not CJK) with every gap above the
\* word-gap threshold, composed and split on spaces, has as many pieces as
\* the line has tokens.
C20_TokenCountRecovered ==
  (/\ Composed
   /\ ~IsCjkLang(call.lang_in)
   /\ TokensWithoutBlanks
   /\ GapsAboveThreshold) =>
     Len(SplitOnSpaces(call.composed)) = Len(call.ln)

\* C20 amended: a line of tokens made of letters only (page language not
\* CJK) with every gap above the word-gap threshold, composed by
\* compose_single_line and split on spaces, has as many pieces as the line
\* has tokens, and the pieces are the tokens; _compose_text_simple gives the
\* count for every line of tokens without blanks.
C20_WordCountRecovered ==
  /\ (/\ Composed
      /\ ~IsCjkLang(call.lang_in)
      /\ TokensOfLetters
      /\ GapsAboveThreshold) =>
        /\ Len(SplitOnSpaces(call.composed)) = Len(call.ln)
        /\ \A i \in 1..Len(call.ln) :
             SplitOnSpaces(call.composed)[i] = call.ln[i].text
  /\ (ComposedBoth /\ TokensWithoutBlanks) =>
        Len(SplitOnSpaces(call.simple)) = Len(call.ln)

\* C20 witness: two words with a gap above the threshold, composed both
\* ways and split in two
C20_TwoWordsTwoPieces ==
  /\ ComposedBoth
  /\ ~IsCjkLang(call.lang_in)
  /\ Len(call.ln) = 2
  /\ TokensOfLetters
  /\ GapsAboveThreshold
  /\ call.ln[2]._x0 - call.ln[1]._x1 = 3
  /\ Len(SplitOnSpaces(call.composed)) = 2
  /\ Len(SplitOnSpaces(call.simple)) = 2

\* C21: an entry leaves the pending queue of the running process only when
\* its job is started (its task is registered in active_tasks) or when
\* remove_from_queue withdraws it; every entry that drain_queue pops has its
\* job started, also when save_or_update_history fails.
C21_EntriesLeaveByStartOrWithdrawal ==
  [][up' =>
       \A j \in Jobs :
         (Queued(j) /\ ~Queued(j)') =>
           \/ j \in active_tasks'
           \/ last'.op = "delete" /\ last'.id = j /\ last'.ret = "withdrawn"]_vars

\* the starts of the last handler that drain_queue made: those that are not
\* a call of schedule_translation that returned "running"
DrainStarted ==
  {i \in 1..Len(last.started) :
     ~\E c \in LastCalls :
        c.ret = "running" /\ c.task_id = last.started[i][2]}

\* C22: at every suspension point the pending queue is empty or the running
\* count equals the cap, and no job that drain_queue started in the last
\* handler leaves an entry of earlier created_at behind in the queue.
C22_WorkConserving ==
  /\ pending_queue = <<>> \/ Cardinality(active_tasks) = MAX_CONCURRENT
  /\ \A i \in DrainStarted : \A k \in 1..Len(pending_queue) :
       last.started[i][1] <= pending_queue[k][1]

\* C22 witness: a job's stream ended, drain_queue started the older of two
\* waiting jobs and the younger one still waits
C22_OldestPromoted ==
  /\ last.op = "stream_end"
  /\ DrainStarted # {}
  /\ pending_queue # <<>>
  /\ \A i \in DrainStarted : last.started[i][1] < pending_queue[1][1]
  /\ Cardinality(active_tasks) = MAX_CONCURRENT

C24_OneSubscriberPerJob ==
  /\ [](\A j \in Jobs :
         connected_clients[j] # 0 =>
           /\ sockets[connected_clients[j]].state = "open"
           /\ sockets[connected_clients[j]].task = j)
  /\ [][/\ \A w \in Sockets, j \in Jobs :
            WsConnect(w, j) =>
              /\ connected_clients'[j] = w
              /\ \A k \in Jobs \ {j} :
                   connected_clients'[k] = connected_clients[k]
        /\ \A w \in Sockets :
            WsDisconnect(w) =>
              \A j \in Jobs :
                connected_clients'[j] =
                  IF connected_clients[j] = w THEN 0
                  ELSE connected_clients[j]]_vars

\* the connection that was replaced has just gone away and the newer one
\* is still the registered websocket of the job
C24_ReplacedConnectionGone ==
  /\ last.op = "ws_close"
  /\ sockets[last.id].state = "closed"
  /\ connected_clients[sockets[last.id].task] \notin {0, last.id}
  /\ sockets[connected_clients[sockets[last.id].task]].state = "open"

\* the calls made so far on the config that has the translator
CallsOnTranslator ==
  SelectSeq(call.calls, LAMBDA c : c[2] = "translator")

\* the function called last on the translator, "" before the first call
LastOnTranslator ==
  IF CallsOnTranslator = <<>> THEN ""
  ELSE CallsOnTranslator[Len(CallsOnTranslator)][1]

\* C25: after any sequence of hook_trans and unhook_trans calls the
\* translator is in the state that the last call on it alone produces: the
\* replacement prompt with the original stored and the marker set if that
\* was hook_trans, the original prompt with nothing stored and no marker
\* otherwise; the stored prompt is never the replacement.
C25_HookUnhookInverse ==
  call.fn = "hook" =>
    /\ call.translator.original_prompt # "replacement"
    /\ call.translator =
         IF LastOnTranslator = "hook_trans"
         THEN [prompt |-> "replacement", original_prompt |-> "original",
               prompt_hooked |-> "True"]
         ELSE NewTranslator

\* hook_trans twice, then unhook_trans: the prompt is the original again
C25_HookedTwiceThenUnhooked ==
  /\ call.fn = "hook"
  /\ call.calls = <<<<"hook_trans", "translator">>,
                    <<"hook_trans", "translator">>,
                    <<"unhook_trans", "translator">>>>
  /\ call.translator.prompt = "original"

\* C26: when the event stream of a job that received an error event and no
\* finish event ends, the job's status is error afterwards, in memory and
\* in the job store.
C26_ErrorSurvivesStreamEnd ==
  [][\A j \in Jobs :
       (/\ OnStreamEnd(j)
        /\ active_translations[j].error = "event_error"
        /\ ~tasks[j].finished) =>
         /\ active_translations'[j].status = "error"
         /\ db'[j].status = "error"]_vars

\* C27: a maintenance sweep, at startup or from the periodic loop, leaves
\* the persisted status of every job that has a running task or an entry in
\* the pending queue of this process as it was.
C27_SweepSparesLiveJobs ==
  [][(Maintenance \/ OnStartup) =>
       \A j \in Jobs :
         (j \in active_tasks \/ Queued(j)) => db'[j].status = db[j].status]_vars

\* C28: when on_startup has completed, every job whose row says running or
\* queued has a task registered as running or an entry in the pending
\* queue.
C28_UnfinishedRowsTrackedAfterStartup ==
  last.op = "startup" =>
    \A j \in Jobs :
      db[j].status \in {"running", "queued"} =>
        j \in active_tasks \/ Queued(j)

\* the jobs, persisted or in memory, whose source file is f
JobsOfFile(f) ==
  {j \in Jobs : \/ db[j].status # "absent" /\ db[j].filename = f
                \/ active_translations[j].status # "absent"
                     /\ active_translations[j].filename = f}

\* C29: a maintenance sweep, also one during which reading the job list
\* from the job store fails, deletes an uploaded file only if no row of the
\* job store and no record in memory references it.
C29_SweepDeletesOnlyOrphans ==
  [][(Maintenance \/ MaintenanceStoreDown \/ OnStartup) =>
       \A f \in uploads \ uploads' : JobsOfFile(f) = {}]_vars

\* C30: no job id is at once in the pending queue and in the running set,
\* and no job id has two entries in the pending queue.
C30_QueuedXorRunningOnce ==
  /\ \A j \in Jobs : ~(Queued(j) /\ j \in active_tasks)
  /\ \A i, k \in 1..Len(pending_queue) :
       pending_queue[i][2] = pending_queue[k][2] => i = k

\* startup recovery has started one unfinished job and queued two others
C30_RecoveredIntoBoth ==
  /\ last.op = "startup"
  /\ Len(pending_queue) = 2
  /\ Cardinality(active_tasks) = MAX_CONCURRENT

=============================================================================
